---- MODULE Spec2Model ----
(***************************************************************************)
(* Model of packages/desktop/src-tauri/src/opencode_auth.rs: the auth.json *)
(* credential store (read_auth, write_auth, remove_provider_auth) over a   *)
(* file system holding the data directory, auth.json and its backup        *)
(* auth.json.openchamber.backup.                                           *)
(*                                                                         *)
(* File contents are sequences of one-character strings.  JSON values are  *)
(* records of one uniform shape.  serde_json::to_string_pretty and         *)
(* serde_json::from_str are modelled by a pretty printer and a recursive   *)
(* descent parser over those character sequences.  Every tokio::fs call is *)
(* one atomic step of the caller that awaits it.                           *)
(***************************************************************************)
EXTENDS Integers, Sequences, FiniteSets, TLC

(***************************************************************************)
(* Bounds                                                                  *)
(***************************************************************************)
\* payload numbers stored under a provider key are 1..NumPayloads
NumPayloads == 2
\* a failed fs::write / fs::copy leaves at most this many bytes of the data
MaxPartial == 1

(***************************************************************************)
(* JSON values (serde_json::Value)                                         *)
(***************************************************************************)
\* t: kind; n: the number; s: the string; c: members [k, v] sorted by key
\* for an object (serde_json::Map is a BTreeMap), elements [k = <<>>, v]
\* in order for an array
Null == [t |-> "null", n |-> 0, s |-> <<>>, c |-> <<>>]

Num(n) == [t |-> "num", n |-> n, s |-> <<>>, c |-> <<>>]

Str(s) == [t |-> "str", n |-> 0, s |-> s, c |-> <<>>]

Arr(elems) == [t |-> "arr", n |-> 0, s |-> <<>>, c |-> elems]

Obj(members) == [t |-> "obj", n |-> 0, s |-> <<>>, c |-> members]

\* Value::Object(serde_json::Map::new())
EmptyObject == Obj(<<>>)

Elem(v) == [k |-> <<>>, v |-> v]

Member(k, v) == [k |-> k, v |-> v]

\* Value::as_object_mut(): Some only for Value::Object
IsObject(v) == v.t = "obj"

(***************************************************************************)
(* Characters and strings                                                  *)
(***************************************************************************)
Digits == <<"0", "1", "2", "3", "4", "5", "6", "7", "8", "9">>

\* byte order of the characters that occur in keys
KeyAlphabet == <<"x", "y", "z">>

RECURSIVE IndexOf(_, _, _)
IndexOf(seq, ch, i) ==
    IF i > Len(seq) THEN 0
    ELSE IF seq[i] = ch THEN i
    ELSE IndexOf(seq, ch, i + 1)

IsDigit(ch) == IndexOf(Digits, ch, 1) # 0

DigitVal(ch) == IndexOf(Digits, ch, 1) - 1

\* char::is_whitespace (Unicode White_Space), used by str::trim
IsWhitespace(ch) == ch \in {" ", "\n", "\t", "\r", "\f"}

\* the four whitespace characters of the JSON grammar
IsJsonWs(ch) == ch \in {" ", "\n", "\t", "\r"}

\* Ord for String, the order of BTreeMap<String, Value>
RECURSIVE KeyLess(_, _)
KeyLess(a, b) ==
    IF Len(b) = 0 THEN FALSE
    ELSE IF Len(a) = 0 THEN TRUE
    ELSE IF a[1] = b[1] THEN KeyLess(Tail(a), Tail(b))
    ELSE IndexOf(KeyAlphabet, a[1], 1) < IndexOf(KeyAlphabet, b[1], 1)

RECURSIVE TrimStart(_)
TrimStart(s) ==
    IF Len(s) > 0 /\ IsWhitespace(s[1]) THEN TrimStart(Tail(s)) ELSE s

RECURSIVE TrimEnd(_)
TrimEnd(s) ==
    IF Len(s) > 0 /\ IsWhitespace(s[Len(s)])
    THEN TrimEnd(SubSeq(s, 1, Len(s) - 1))
    ELSE s

\* str::trim
Trim(s) == TrimEnd(TrimStart(s))

(***************************************************************************)
(* serde_json::Map operations                                              *)
(***************************************************************************)
RECURSIVE ContainsKey(_, _)
ContainsKey(members, k) ==
    IF Len(members) = 0 THEN FALSE
    ELSE IF members[1].k = k THEN TRUE
    ELSE ContainsKey(Tail(members), k)

\* a removal that drops the first member, whatever its key
Remove_First(members, k) ==
    IF Len(members) = 0 THEN <<>> ELSE Tail(members)

RECURSIVE Remove(_, _)
Remove(members, k) ==
    IF Len(members) = 0 THEN <<>>
    ELSE IF members[1].k = k THEN Tail(members)
    ELSE <<members[1]>> \o Remove(Tail(members), k)

\* Map::insert: replaces the value of a key already present
RECURSIVE Insert(_, _, _)
Insert(members, k, v) ==
    IF Len(members) = 0 THEN <<Member(k, v)>>
    ELSE IF members[1].k = k THEN <<Member(k, v)>> \o Tail(members)
    ELSE IF KeyLess(k, members[1].k) THEN <<Member(k, v)>> \o members
    ELSE <<members[1]>> \o Insert(Tail(members), k, v)

RECURSIVE Get(_, _)
Get(members, k) ==
    IF members[1].k = k THEN members[1].v ELSE Get(Tail(members), k)

KeysOf(members) == {members[i].k : i \in 1..Len(members)}

(***************************************************************************)
(* serde_json::to_string_pretty (PrettyFormatter, indent of two spaces)    *)
(***************************************************************************)
RECURSIVE Indent(_)
Indent(level) == IF level = 0 THEN <<>> ELSE <<" ", " ">> \o Indent(level - 1)

RECURSIVE FormatNat(_)
FormatNat(n) ==
    IF n < 10 THEN <<Digits[n + 1]>>
    ELSE FormatNat(n \div 10) \o <<Digits[(n % 10) + 1]>>

FormatStr(s) == <<"\"">> \o s \o <<"\"">>

RECURSIVE Pretty(_, _), PrettyItems(_, _, _, _)
Pretty(v, level) ==
    CASE v.t = "null" -> <<"n", "u", "l", "l">>
      [] v.t = "num" -> FormatNat(v.n)
      [] v.t = "str" -> FormatStr(v.s)
      [] v.t = "arr" ->
            IF Len(v.c) = 0 THEN <<"[", "]">>
            ELSE <<"[">> \o PrettyItems(v.c, FALSE, level + 1, TRUE)
                 \o <<"\n">> \o Indent(level) \o <<"]">>
      [] v.t = "obj" ->
            IF Len(v.c) = 0 THEN <<"{", "}">>
            ELSE <<"{">> \o PrettyItems(v.c, TRUE, level + 1, TRUE)
                 \o <<"\n">> \o Indent(level) \o <<"}">>

PrettyItems(items, keyed, level, first) ==
    IF Len(items) = 0 THEN <<>>
    ELSE (IF first THEN <<"\n">> ELSE <<",", "\n">>)
         \o Indent(level)
         \o (IF keyed THEN FormatStr(items[1].k) \o <<":", " ">> ELSE <<>>)
         \o Pretty(items[1].v, level)
         \o PrettyItems(Tail(items), keyed, level, FALSE)

to_string_pretty(v) == Pretty(v, 0)

(***************************************************************************)
(* serde_json::from_str                                                    *)
(***************************************************************************)
\* a parse result: ok, the value, and the index of the next unread character
ParseErr == [ok |-> FALSE, v |-> Null, i |-> 0]

ParseOk(v, i) == [ok |-> TRUE, v |-> v, i |-> i]

Peek(s, i) == IF i <= Len(s) THEN s[i] ELSE "EOF"

RECURSIVE SkipWs(_, _)
SkipWs(s, i) ==
    IF i <= Len(s) /\ IsJsonWs(s[i]) THEN SkipWs(s, i + 1) ELSE i

\* digits of a number after its first digit
RECURSIVE ParseDigits(_, _, _)
ParseDigits(s, i, acc) ==
    IF IsDigit(Peek(s, i))
    THEN ParseDigits(s, i + 1, acc * 10 + DigitVal(s[i]))
    ELSE ParseOk(Num(acc), i)

\* a leading 0 may not be followed by another digit
ParseNumber(s, i) ==
    IF s[i] = "0"
    THEN IF IsDigit(Peek(s, i + 1)) THEN ParseErr ELSE ParseOk(Num(0), i + 1)
    ELSE ParseDigits(s, i + 1, DigitVal(s[i]))

\* the characters after an opening quote, up to the closing quote; control
\* characters may not occur unescaped
RECURSIVE ParseStrBody(_, _, _)
ParseStrBody(s, i, acc) ==
    IF i > Len(s) THEN ParseErr
    ELSE IF s[i] = "\"" THEN ParseOk(Str(acc), i + 1)
    ELSE IF s[i] \in {"\n", "\t", "\r", "\f"} THEN ParseErr
    ELSE ParseStrBody(s, i + 1, Append(acc, s[i]))

RECURSIVE ParseValue(_, _), ParseElems(_, _, _), ParseMembers(_, _, _)
ParseValue(s, i) ==
    LET j == SkipWs(s, i)
        ch == Peek(s, j)
    IN  CASE ch = "n" ->
                IF j + 3 <= Len(s) /\ SubSeq(s, j, j + 3) = <<"n", "u", "l", "l">>
                THEN ParseOk(Null, j + 4)
                ELSE ParseErr
          [] ch = "\"" -> ParseStrBody(s, j + 1, <<>>)
          [] IsDigit(ch) -> ParseNumber(s, j)
          [] ch = "[" ->
                LET k == SkipWs(s, j + 1)
                IN  IF Peek(s, k) = "]" THEN ParseOk(Arr(<<>>), k + 1)
                    ELSE ParseElems(s, k, <<>>)
          [] ch = "{" ->
                LET k == SkipWs(s, j + 1)
                IN  IF Peek(s, k) = "}" THEN ParseOk(Obj(<<>>), k + 1)
                    ELSE ParseMembers(s, k, <<>>)
          [] OTHER -> ParseErr

ParseElems(s, i, acc) ==
    LET r == ParseValue(s, i)
    IN  IF ~r.ok THEN ParseErr
        ELSE LET k == SkipWs(s, r.i)
             IN  CASE Peek(s, k) = "," -> ParseElems(s, k + 1, Append(acc, Elem(r.v)))
                   [] Peek(s, k) = "]" -> ParseOk(Arr(Append(acc, Elem(r.v))), k + 1)
                   [] OTHER -> ParseErr

ParseMembers(s, i, acc) ==
    LET j == SkipWs(s, i)
    IN  IF Peek(s, j) # "\"" THEN ParseErr
        ELSE LET key == ParseStrBody(s, j + 1, <<>>)
             IN  IF ~key.ok THEN ParseErr
                 ELSE LET c == SkipWs(s, key.i)
                      IN  IF Peek(s, c) # ":" THEN ParseErr
                          ELSE LET r == ParseValue(s, c + 1)
                               IN  IF ~r.ok THEN ParseErr
                                   ELSE LET k == SkipWs(s, r.i)
                                            m == Insert(acc, key.v.s, r.v)
                                        IN  CASE Peek(s, k) = "," -> ParseMembers(s, k + 1, m)
                                              [] Peek(s, k) = "}" -> ParseOk(Obj(m), k + 1)
                                              [] OTHER -> ParseErr

\* one value, then nothing but whitespace
from_str(s) ==
    LET r == ParseValue(s, 1)
    IN  IF r.ok /\ SkipWs(s, r.i) > Len(s) THEN r ELSE ParseErr

(***************************************************************************)
(* Inputs and stored data                                                  *)
(***************************************************************************)
\* provider identifiers stored as keys of the auth object
ProviderKeys == {<<"x">>, <<"y">>}

\* provider_id arguments of remove_provider_auth, the empty one included
ProviderIds == ProviderKeys \cup {<<>>}

\* the opaque payload kept under a provider key
Payloads == {Num(n) : n \in 1..NumPayloads}

RECURSIVE ObjectOf(_, _)
ObjectOf(f, keys) ==
    IF keys = {} THEN <<>>
    ELSE LET k == CHOOSE k \in keys : TRUE
         IN  Insert(ObjectOf(f, keys \ {k}), k, f[k])

\* the auth objects: some of the provider keys, each with a payload
Stores == {Obj(ObjectOf(f, DOMAIN f)) :
              f \in UNION {[K -> Payloads] : K \in SUBSET ProviderKeys}}

\* JSON values that are not objects
NonObjects == {Null, Num(1), Str(<<"x">>), Arr(<<Elem(Num(1))>>)}

\* an object whose payload is itself an object
Nested == Obj(<<Member(<<"x">>, Obj(<<Member(<<"z">>, Str(<<>>))>>))>>)

\* arguments of write_auth
WriteValues == Stores \cup NonObjects \cup {Nested}

\* a file: whether it exists, and its content
NoFile == [e |-> FALSE, c |-> <<>>]

File(content) == [e |-> TRUE, c |-> content]

\* contents of auth.json that this module did not write: blank, malformed,
\* not an object, compact, with an empty key
ForeignContents ==
    { <<>>,
      <<" ", "\n">>,
      <<"\f">>,
      <<"{">>,
      <<"[", "]">>,
      <<"n", "u", "l", "l", "\n">>,
      <<"{", "\"", "y", "\"", ":", "2", ",", "\"", "x", "\"", ":", "1", "}", "\n">>,
      <<"{", "\"", "\"", ":", "1", "}">> }

InitContents == {to_string_pretty(v) : v \in Stores} \cup ForeignContents

OldBackup == File(<<"{", "}">>)

(***************************************************************************)
(* Results of the exposed operations (anyhow::Result)                      *)
(***************************************************************************)
NoResult == [kind |-> "none", e |-> "", v |-> Null, b |-> FALSE]

\* Ok(Value) of read_auth
OkValue(v) == [kind |-> "ok", e |-> "", v |-> v, b |-> FALSE]

\* Ok(()) of write_auth
OkUnit == [kind |-> "ok", e |-> "", v |-> Null, b |-> FALSE]

\* Ok(bool) of remove_provider_auth
OkBool(b) == [kind |-> "ok", e |-> "", v |-> Null, b |-> b]

\* Err: e is "validation", "schema", "parse" or "io"
Err(e) == [kind |-> "err", e |-> e, v |-> Null, b |-> FALSE]

(***************************************************************************)
(* read_auth, lines 36-43: the content read, trimmed and parsed            *)
(***************************************************************************)
\* read_auth without the blank check of lines 39-41
ParseContent_NoBlankCheck(content) ==
    LET r == from_str(Trim(content))
    IN  IF r.ok THEN OkValue(r.v) ELSE Err("parse")

ParseContent(content) ==
    LET trimmed == Trim(content)
    IN  IF Len(trimmed) = 0 THEN OkValue(EmptyObject)
        ELSE LET r == from_str(trimmed)
             IN  IF r.ok THEN OkValue(r.v) ELSE Err("parse")

\* read_auth on a file system whose calls succeed
ReadAuthOf(file) ==
    IF ~file.e THEN OkValue(EmptyObject) ELSE ParseContent(file.c)

Min(a, b) == IF a < b THEN a ELSE b

\* what a failed fs::write or fs::copy of data can leave at its target: the
\* old file (the open failed), or the file truncated and part of data written
PartialOutcomes(old, data) ==
    {old} \cup {File(SubSeq(data, 1, n)) : n \in 0..Min(MaxPartial, Len(data))}

(***************************************************************************)
(* State                                                                   *)
(***************************************************************************)
VARIABLES
    dataDir,      \* whether ~/.local/share/opencode exists
    authFile,     \* auth.json
    backupFile,   \* auth.json.openchamber.backup
    callers,      \* the tasks that call the exposed operations
    pc,           \* per caller: "idle", the fs call it awaits next, or "done"
    op,           \* per caller: the exposed operation in progress
    provider_id,  \* per caller: the argument of remove_provider_auth
    auth,         \* per caller: the argument of write_auth / `auth` of
                  \* remove_provider_auth
    result,       \* per caller: what the operation returned
    fault,        \* per caller: the fs call that failed in this operation
    pre,          \* per caller: the file system when the operation was called
    prevWrite,    \* per caller, in write_auth: the value of the write_auth that
                  \* completed right before this one, if that is what preceded it
    readSaw       \* per caller: its read of auth.json came after the
                  \* fs::write of another caller's operation

vars == <<dataDir, authFile, backupFile, callers, pc, op, provider_id, auth,
          result, fault, pre, prevWrite, readSaw>>

fsVars == <<dataDir, authFile, backupFile>>

NoWrite == [some |-> FALSE, v |-> Null]

Snapshot == [dataDir |-> dataDir, authFile |-> authFile, backupFile |-> backupFile]

InitCallers(cs) ==
    /\ callers = cs
    /\ pc = [p \in cs |-> "idle"]
    /\ op = [p \in cs |-> "none"]
    /\ provider_id = [p \in cs |-> <<>>]
    /\ auth = [p \in cs |-> Null]
    /\ result = [p \in cs |-> NoResult]
    /\ fault = [p \in cs |-> "none"]
    /\ pre = [p \in cs |-> Snapshot]
    /\ prevWrite = [p \in cs |-> NoWrite]
    /\ readSaw = [p \in cs |-> FALSE]

\* one caller; any state of the data directory, auth.json and the backup
Init ==
    /\ authFile \in {NoFile} \cup {File(c) : c \in InitContents}
    /\ backupFile \in {NoFile, OldBackup}
    /\ dataDir \in BOOLEAN
    /\ (authFile.e \/ backupFile.e) => dataDir
    /\ InitCallers({1})

\* one caller; auth.json is missing or holds a JSON object
InitObj ==
    /\ authFile \in {NoFile} \cup {File(to_string_pretty(v)) : v \in Stores}
    /\ backupFile \in {NoFile, OldBackup}
    /\ dataDir \in BOOLEAN
    /\ (authFile.e \/ backupFile.e) => dataDir
    /\ InitCallers({1})

\* two callers; auth.json holds an object with both provider keys
InitRace ==
    /\ authFile \in {File(to_string_pretty(v)) :
                        v \in {s \in Stores : KeysOf(s.c) = ProviderKeys}}
    /\ backupFile \in {NoFile, OldBackup}
    /\ dataDir = TRUE
    /\ InitCallers({1, 2})

(***************************************************************************)
(* Steps                                                                   *)
(***************************************************************************)
\* the operation of p returns r
Return(p, r) ==
    /\ pc' = [pc EXCEPT ![p] = "done"]
    /\ result' = [result EXCEPT ![p] = r]

\* a caller starts an operation when it has none in progress
Begin(p, name) ==
    /\ pc[p] \in {"idle", "done"}
    /\ op' = [op EXCEPT ![p] = name]
    /\ fault' = [fault EXCEPT ![p] = "none"]
    /\ pre' = [pre EXCEPT ![p] = Snapshot]
    /\ readSaw' = [readSaw EXCEPT ![p] = FALSE]
    /\ prevWrite' = [prevWrite EXCEPT ![p] =
            IF /\ name = "write_auth"
               /\ op[p] = "write_auth" /\ pc[p] = "done" /\ result[p].kind = "ok"
            THEN [some |-> TRUE, v |-> auth[p]]
            ELSE NoWrite]

\* read_auth is called (line 29)
CallReadAuth(p) ==
    /\ Begin(p, "read_auth")
    /\ pc' = [pc EXCEPT ![p] = "read_exists"]
    /\ result' = [result EXCEPT ![p] = NoResult]
    /\ provider_id' = [provider_id EXCEPT ![p] = <<>>]
    /\ auth' = [auth EXCEPT ![p] = Null]
    /\ UNCHANGED <<fsVars, callers>>

\* write_auth(v) is called (line 47)
CallWriteAuth(p, v) ==
    /\ Begin(p, "write_auth")
    /\ pc' = [pc EXCEPT ![p] = "ensure_data_dir"]
    /\ result' = [result EXCEPT ![p] = NoResult]
    /\ provider_id' = [provider_id EXCEPT ![p] = <<>>]
    /\ auth' = [auth EXCEPT ![p] = v]
    /\ UNCHANGED <<fsVars, callers>>

\* remove_provider_auth without the check of lines 73-75
CallRemoveProviderAuth_NoValidation(p, k) ==
    /\ Begin(p, "remove_provider_auth")
    /\ provider_id' = [provider_id EXCEPT ![p] = k]
    /\ auth' = [auth EXCEPT ![p] = Null]
    /\ pc' = [pc EXCEPT ![p] = "read_exists"]
    /\ result' = [result EXCEPT ![p] = NoResult]
    /\ UNCHANGED <<fsVars, callers>>

\* remove_provider_auth(k) is called (lines 72-77): an empty id is rejected
\* before anything is read
CallRemoveProviderAuth(p, k) ==
    /\ Begin(p, "remove_provider_auth")
    /\ provider_id' = [provider_id EXCEPT ![p] = k]
    /\ auth' = [auth EXCEPT ![p] = Null]
    /\ IF Len(k) = 0
       THEN Return(p, Err("validation"))
       ELSE /\ pc' = [pc EXCEPT ![p] = "read_exists"]
            /\ result' = [result EXCEPT ![p] = NoResult]
    /\ UNCHANGED <<fsVars, callers>>

\* remove_provider_auth without the contains_key check of lines 83-89
AfterRead_NoContainsCheck(p, r) ==
    IF op[p] = "read_auth" THEN Return(p, r) /\ UNCHANGED auth
    ELSE IF r.kind = "err" THEN Return(p, r) /\ UNCHANGED auth
    ELSE IF ~IsObject(r.v) THEN Return(p, Err("schema")) /\ UNCHANGED auth
    ELSE /\ auth' = [auth EXCEPT ![p] = Obj(Remove(r.v.c, provider_id[p]))]
         /\ pc' = [pc EXCEPT ![p] = "ensure_data_dir"]
         /\ UNCHANGED result

\* remove_provider_auth taking a non-object for an object without the key
AfterRead_NoObjectCheck(p, r) ==
    IF op[p] = "read_auth" THEN Return(p, r) /\ UNCHANGED auth
    ELSE IF r.kind = "err" THEN Return(p, r) /\ UNCHANGED auth
    ELSE IF ~IsObject(r.v) \/ ~ContainsKey(r.v.c, provider_id[p])
         THEN Return(p, OkBool(FALSE)) /\ UNCHANGED auth
    ELSE /\ auth' = [auth EXCEPT ![p] = Obj(Remove(r.v.c, provider_id[p]))]
         /\ pc' = [pc EXCEPT ![p] = "ensure_data_dir"]
         /\ UNCHANGED result

\* what follows read_auth's result r: read_auth returns it (line 29), and
\* remove_provider_auth goes on with lines 77-92
AfterRead(p, r) ==
    IF op[p] = "read_auth" THEN Return(p, r) /\ UNCHANGED auth
    ELSE IF r.kind = "err" THEN Return(p, r) /\ UNCHANGED auth
    ELSE IF ~IsObject(r.v) THEN Return(p, Err("schema")) /\ UNCHANGED auth
    ELSE IF ~ContainsKey(r.v.c, provider_id[p])
         THEN Return(p, OkBool(FALSE)) /\ UNCHANGED auth
    ELSE /\ auth' = [auth EXCEPT ![p] = Obj(Remove(r.v.c, provider_id[p]))]
         /\ pc' = [pc EXCEPT ![p] = "ensure_data_dir"]
         /\ UNCHANGED result

\* another caller's operation has written auth.json and returned
SawWrite(p) ==
    \E q \in callers \ {p} :
        pc[q] = "done" /\ result[q].kind = "ok" /\ op[q] # "read_auth"
                      /\ (op[q] = "remove_provider_auth" => result[q].b)

\* auth_file.exists() in read_auth (lines 32-34)
ReadExists(p) ==
    /\ pc[p] = "read_exists"
    /\ IF authFile.e
       THEN /\ pc' = [pc EXCEPT ![p] = "read_to_string"]
            /\ UNCHANGED <<result, auth, readSaw>>
       ELSE /\ AfterRead(p, OkValue(EmptyObject))
            /\ readSaw' = [readSaw EXCEPT ![p] = SawWrite(p)]
    /\ UNCHANGED <<fsVars, callers, op, provider_id, fault, pre, prevWrite>>

\* fs::read_to_string and the parse (lines 36-43)
ReadToString(p) ==
    /\ pc[p] = "read_to_string"
    /\ \E ok \in BOOLEAN :
          IF ok /\ authFile.e
          THEN /\ AfterRead(p, ParseContent(authFile.c))
               /\ UNCHANGED fault
          ELSE /\ Return(p, Err("io"))
               /\ fault' = [fault EXCEPT ![p] = "read_to_string"]
               /\ UNCHANGED auth
    /\ readSaw' = [readSaw EXCEPT ![p] = SawWrite(p)]
    /\ UNCHANGED <<fsVars, callers, op, provider_id, pre, prevWrite>>

\* ensure_data_dir (lines 22-26, 48): create_dir_all succeeds on a directory
\* that exists
EnsureDataDir(p) ==
    /\ pc[p] = "ensure_data_dir"
    /\ \E ok \in BOOLEAN :
          IF ok \/ dataDir
          THEN /\ dataDir' = TRUE
               /\ pc' = [pc EXCEPT ![p] = "write_exists"]
               /\ UNCHANGED <<result, fault>>
          ELSE /\ Return(p, Err("io"))
               /\ fault' = [fault EXCEPT ![p] = "create_dir_all"]
               /\ UNCHANGED dataDir
    /\ UNCHANGED <<authFile, backupFile, callers, op, provider_id, auth, pre,
                   prevWrite, readSaw>>

\* auth_file.exists() in write_auth (line 53)
WriteExists(p) ==
    /\ pc[p] = "write_exists"
    /\ pc' = [pc EXCEPT ![p] = IF authFile.e THEN "copy" ELSE "write"]
    /\ UNCHANGED <<fsVars, callers, op, provider_id, auth, result, fault, pre,
                   prevWrite, readSaw>>

\* a copy that keeps a backup that is already there
Copy_KeepsOldBackup(p) ==
    /\ pc[p] = "copy"
    /\ \E ok \in BOOLEAN :
          IF ok /\ authFile.e
          THEN /\ backupFile' = IF backupFile.e THEN backupFile ELSE File(authFile.c)
               /\ pc' = [pc EXCEPT ![p] = "write"]
               /\ UNCHANGED <<result, fault>>
          ELSE /\ backupFile' \in PartialOutcomes(backupFile, authFile.c)
               /\ Return(p, Err("io"))
               /\ fault' = [fault EXCEPT ![p] = "copy"]
    /\ UNCHANGED <<dataDir, authFile, callers, op, provider_id, auth, pre,
                   prevWrite, readSaw>>

\* a copy whose error is dropped instead of returned
Copy_IgnoresError(p) ==
    /\ pc[p] = "copy"
    /\ \E ok \in BOOLEAN :
          IF ok /\ authFile.e
          THEN /\ backupFile' = File(authFile.c)
               /\ UNCHANGED fault
          ELSE /\ backupFile' \in PartialOutcomes(backupFile, authFile.c)
               /\ fault' = [fault EXCEPT ![p] = "copy"]
    /\ pc' = [pc EXCEPT ![p] = "write"]
    /\ UNCHANGED <<dataDir, authFile, callers, op, provider_id, auth, result,
                   pre, prevWrite, readSaw>>

\* fs::copy(&auth_file, &backup_path) (line 60): an error is returned with `?`
Copy(p) ==
    /\ pc[p] = "copy"
    /\ \E ok \in BOOLEAN :
          IF ok /\ authFile.e
          THEN /\ backupFile' = File(authFile.c)
               /\ pc' = [pc EXCEPT ![p] = "write"]
               /\ UNCHANGED <<result, fault>>
          ELSE /\ backupFile' \in PartialOutcomes(backupFile, authFile.c)
               /\ Return(p, Err("io"))
               /\ fault' = [fault EXCEPT ![p] = "copy"]
    /\ UNCHANGED <<dataDir, authFile, callers, op, provider_id, auth, pre,
                   prevWrite, readSaw>>

\* the old content with the new bytes laid over its start
Overlay(old, data) ==
    IF Len(old) > Len(data)
    THEN data \o SubSeq(old, Len(data) + 1, Len(old))
    ELSE data

\* a write that opens auth.json without truncating it
Write_NoTruncate(p) ==
    /\ pc[p] = "write"
    /\ LET json_string == to_string_pretty(auth[p])
       IN  \E ok \in BOOLEAN :
              IF ok
              THEN /\ authFile' = File(Overlay(authFile.c, json_string))
                   /\ Return(p, IF op[p] = "write_auth" THEN OkUnit ELSE OkBool(TRUE))
                   /\ UNCHANGED fault
              ELSE /\ authFile' \in PartialOutcomes(authFile, json_string)
                   /\ Return(p, Err("io"))
                   /\ fault' = [fault EXCEPT ![p] = "write"]
    /\ UNCHANGED <<dataDir, backupFile, callers, op, provider_id, auth, pre,
                   prevWrite, readSaw>>

\* a write that appends to auth.json
Write_Append(p) ==
    /\ pc[p] = "write"
    /\ LET json_string == to_string_pretty(auth[p])
       IN  \E ok \in BOOLEAN :
              IF ok
              THEN /\ authFile' = File(authFile.c \o json_string)
                   /\ Return(p, IF op[p] = "write_auth" THEN OkUnit ELSE OkBool(TRUE))
                   /\ UNCHANGED fault
              ELSE /\ authFile' \in PartialOutcomes(authFile, json_string)
                   /\ Return(p, Err("io"))
                   /\ fault' = [fault EXCEPT ![p] = "write"]
    /\ UNCHANGED <<dataDir, backupFile, callers, op, provider_id, auth, pre,
                   prevWrite, readSaw>>

\* to_string_pretty and fs::write(&auth_file, json_string) (lines 64-68), and
\* the return of remove_provider_auth after it (lines 92-95)
Write(p) ==
    /\ pc[p] = "write"
    /\ LET json_string == to_string_pretty(auth[p])
       IN  \E ok \in BOOLEAN :
              IF ok
              THEN /\ authFile' = File(json_string)
                   /\ Return(p, IF op[p] = "write_auth" THEN OkUnit ELSE OkBool(TRUE))
                   /\ UNCHANGED fault
              ELSE /\ authFile' \in PartialOutcomes(authFile, json_string)
                   /\ Return(p, Err("io"))
                   /\ fault' = [fault EXCEPT ![p] = "write"]
    /\ UNCHANGED <<dataDir, backupFile, callers, op, provider_id, auth, pre,
                   prevWrite, readSaw>>

Next ==
    \/ \E p \in callers : CallReadAuth(p)
    \/ \E p \in callers : \E v \in WriteValues : CallWriteAuth(p, v)
    \/ \E p \in callers : \E k \in ProviderIds : CallRemoveProviderAuth(p, k)
    \/ \E p \in callers : ReadExists(p)
    \/ \E p \in callers : ReadToString(p)
    \/ \E p \in callers : EnsureDataDir(p)
    \/ \E p \in callers : WriteExists(p)
    \/ \E p \in callers : Copy(p)
    \/ \E p \in callers : Write(p)

Spec == Init /\ [][Next]_vars

SpecObj == InitObj /\ [][Next]_vars

\* each of the two callers removes one provider key, a different one each
RaceCall(p) ==
    /\ pc[p] = "idle"
    /\ \E k \in ProviderKeys :
          /\ \A q \in callers \ {p} : provider_id[q] # k
          /\ CallRemoveProviderAuth(p, k)

NextRace ==
    \/ \E p \in callers : RaceCall(p)
    \/ \E p \in callers : ReadExists(p)
    \/ \E p \in callers : ReadToString(p)
    \/ \E p \in callers : EnsureDataDir(p)
    \/ \E p \in callers : WriteExists(p)
    \/ \E p \in callers : Copy(p)
    \/ \E p \in callers : Write(p)

SpecRace == InitRace /\ [][NextRace]_vars

(***************************************************************************)
(* Properties                                                              *)
(***************************************************************************)
\* the operation `name` of p has returned
Done(p, name) == pc[p] = "done" /\ op[p] = name

\* what read_auth makes of auth.json as it was when p's operation was called
Stored(p) == ReadAuthOf(pre[p].authFile)

\* what read_auth makes of auth.json now
Current == ReadAuthOf(authFile)

StoredObject(r) == r.kind = "ok" /\ IsObject(r.v)

Blank(content) == \A i \in 1..Len(content) : IsWhitespace(content[i])

\* C1: when a write_auth(v2) completes right after a write_auth(v1) that
\* completed, the backup file exists and holds the serialization of v1, which
\* is the content auth.json had right before the second write
C1_BackupHoldsFirstWrite ==
    \A p \in callers :
        (Done(p, "write_auth") /\ result[p].kind = "ok" /\ prevWrite[p].some)
        => /\ backupFile = File(to_string_pretty(prevWrite[p].v))
           /\ backupFile = pre[p].authFile

\* two writes of different values have completed, and the backup that was
\* there before the second one has been replaced
C1_Witness ==
    \E p \in callers :
        /\ Done(p, "write_auth") /\ result[p].kind = "ok" /\ prevWrite[p].some
        /\ prevWrite[p].v # auth[p]
        /\ pre[p].backupFile.e /\ pre[p].backupFile # backupFile

\* C2: when the backup copy of a write fails, the operation has returned an
\* I/O error without reaching the write step, and auth.json, which existed,
\* is what it was when the operation was called
C2_FailedCopyLeavesAuthFile ==
    \A p \in callers :
        fault[p] = "copy"
        => /\ pc[p] = "done"
           /\ result[p] = Err("io")
           /\ pre[p].authFile.e
           /\ authFile = pre[p].authFile

\* a write_auth whose copy failed, leaving a different backup behind
C2_Witness ==
    \E p \in callers :
        /\ Done(p, "write_auth") /\ fault[p] = "copy"
        /\ backupFile # pre[p].backupFile

\* C3: remove_provider_auth(k), k not empty, on a stored object S that
\* contains k, with no fs call failing, returns true, and read_auth then
\* returns an object whose keys are those of S except k, each with the value
\* it has in S
C3_RemoveDropsOnlyTheKey ==
    \A p \in callers :
        (/\ Done(p, "remove_provider_auth") /\ Len(provider_id[p]) > 0
         /\ fault[p] = "none"
         /\ StoredObject(Stored(p))
         /\ ContainsKey(Stored(p).v.c, provider_id[p]))
        => /\ result[p] = OkBool(TRUE)
           /\ StoredObject(Current)
           /\ KeysOf(Current.v.c) = KeysOf(Stored(p).v.c) \ {provider_id[p]}
           /\ Len(Current.v.c) = Cardinality(KeysOf(Current.v.c))
           /\ \A j \in KeysOf(Current.v.c) :
                  Get(Current.v.c, j) = Get(Stored(p).v.c, j)

\* a removal from an object with two keys has returned true
C3_Witness ==
    \E p \in callers :
        /\ Done(p, "remove_provider_auth") /\ result[p] = OkBool(TRUE)
        /\ StoredObject(Stored(p))
        /\ Cardinality(KeysOf(Stored(p).v.c)) = 2
        /\ Cardinality(KeysOf(Current.v.c)) = 1

\* C4: remove_provider_auth(k), k not empty, on a stored object without k
\* (a missing or blank file included), with no fs call failing, returns false
\* and leaves the data directory, auth.json and the backup as they were
C4_AbsentKeyWritesNothing ==
    \A p \in callers :
        (/\ Done(p, "remove_provider_auth") /\ Len(provider_id[p]) > 0
         /\ fault[p] = "none"
         /\ StoredObject(Stored(p))
         /\ ~ContainsKey(Stored(p).v.c, provider_id[p]))
        => /\ result[p] = OkBool(FALSE)
           /\ Snapshot = pre[p]

\* a removal of an absent key from an object that has another key, with no
\* backup file around
C4_Witness ==
    \E p \in callers :
        /\ Done(p, "remove_provider_auth") /\ result[p] = OkBool(FALSE)
        /\ pre[p].authFile.e /\ Len(Stored(p).v.c) > 0
        /\ ~pre[p].backupFile.e

\* C5: remove_provider_auth("") has returned a validation error as soon as it
\* is called, whatever auth.json holds, and the data directory, auth.json and
\* the backup are as they were
C5_EmptyIdIsRejected ==
    \A p \in callers :
        (op[p] = "remove_provider_auth" /\ Len(provider_id[p]) = 0)
        => /\ pc[p] = "done"
           /\ result[p] = Err("validation")
           /\ Snapshot = pre[p]

\* remove_provider_auth("") on an object that has the empty key
C5_Witness ==
    \E p \in callers :
        /\ Done(p, "remove_provider_auth") /\ Len(provider_id[p]) = 0
        /\ StoredObject(Stored(p)) /\ ContainsKey(Stored(p).v.c, <<>>)

\* C6: remove_provider_auth(k), k not empty, on an auth.json that holds valid
\* JSON that is not an object, with no fs call failing, returns a schema
\* error and leaves auth.json and the backup as they were
C6_NonObjectIsSchemaError ==
    \A p \in callers :
        (/\ Done(p, "remove_provider_auth") /\ Len(provider_id[p]) > 0
         /\ fault[p] = "none"
         /\ Stored(p).kind = "ok" /\ ~IsObject(Stored(p).v))
        => /\ result[p] = Err("schema")
           /\ authFile = pre[p].authFile
           /\ backupFile = pre[p].backupFile

\* a removal on an auth.json that holds an array
C6_Witness ==
    \E p \in callers :
        /\ Done(p, "remove_provider_auth") /\ result[p] = Err("schema")
        /\ Stored(p).kind = "ok" /\ Stored(p).v.t = "arr"

\* C7: read_auth, its fs::read_to_string not failing, returns the empty
\* object when auth.json is missing or holds only whitespace, and returns a
\* parse error only for a content that is not blank and is not valid JSON
C7_BlankReadsAsEmptyObject ==
    \A p \in callers :
        (Done(p, "read_auth") /\ fault[p] = "none")
        => /\ (~pre[p].authFile.e \/ Blank(pre[p].authFile.c))
              => result[p] = OkValue(EmptyObject)
           /\ result[p].kind = "err"
              => /\ result[p] = Err("parse")
                 /\ pre[p].authFile.e
                 /\ ~Blank(pre[p].authFile.c)
                 /\ ~from_str(pre[p].authFile.c).ok

\* read_auth has returned the empty object for a file of whitespace
C7_Witness ==
    \E p \in callers :
        /\ Done(p, "read_auth") /\ result[p] = OkValue(EmptyObject)
        /\ pre[p].authFile.e /\ Len(pre[p].authFile.c) > 0

\* C8: when write_auth(v) has completed, read_auth returns v, whatever
\* auth.json held before
C8_WriteThenReadRoundTrip ==
    \A p \in callers :
        (Done(p, "write_auth") /\ result[p].kind = "ok")
        => Current = OkValue(auth[p])

\* a value that is not an object has been written over a longer content
C8_Witness ==
    \E p \in callers :
        /\ Done(p, "write_auth") /\ result[p].kind = "ok"
        /\ ~IsObject(auth[p])
        /\ Len(pre[p].authFile.c) > Len(authFile.c)

\* C9 as claimed: starting from a missing file or an object, the value held
\* by auth.json is always a JSON object
C9_AlwaysObject == StoredObject(Current)

\* p's write step is taken with a value that is not an object, or it fails
UnsafeWrite(p) ==
    /\ pc[p] = "write" /\ pc'[p] = "done"
    /\ ~IsObject(auth[p]) \/ fault'[p] = "write"

\* C9 as amended: a step that changes auth.json keeps the value it holds an
\* object unless it is a write step that is given a non-object or that fails
C9_ObjectUnlessUnsafeWrite ==
    [][(/\ authFile' # authFile
        /\ ~(\E p \in callers : UnsafeWrite(p))
        /\ StoredObject(Current))
        => StoredObject(ReadAuthOf(authFile'))]_vars

\* an object has been written over another object by write_auth
C9_Witness ==
    \E p \in callers :
        /\ Done(p, "write_auth") /\ result[p].kind = "ok" /\ IsObject(auth[p])
        /\ StoredObject(Stored(p)) /\ pre[p].authFile.e
        /\ Stored(p).v # auth[p]
        /\ StoredObject(Current)

\* both removals of the race have returned true
BothRemoved ==
    \A p \in callers : Done(p, "remove_provider_auth") /\ result[p] = OkBool(TRUE)

\* auth.json holds an object with none of the provider keys
BothKeysGone ==
    StoredObject(Current) /\ KeysOf(Current.v.c) \cap ProviderKeys = {}

\* C10: two concurrent removals of different keys, both present.  A write
\* step that succeeds leaves in auth.json exactly the object of the caller
\* that takes it; when both calls have returned true, auth.json holds the
\* object of one of them, that of a caller whose read came after the other's
\* write if there is one, and both keys are gone exactly in that case
C10_LastWriterWins ==
    /\ [](BothRemoved =>
            /\ \E p \in callers : authFile = File(to_string_pretty(auth[p]))
            /\ \A p \in callers :
                  readSaw[p] => authFile = File(to_string_pretty(auth[p]))
            /\ BothKeysGone <=> (\E p \in callers : readSaw[p]))
    /\ [][\A p \in callers :
            (pc[p] = "write" /\ pc'[p] = "done" /\ result'[p].kind = "ok")
            => authFile' = File(to_string_pretty(auth[p]))]_vars

\* the lost update: both calls returned true and a removed key is still there
C10_Witness ==
    /\ BothRemoved
    /\ StoredObject(Current)
    /\ KeysOf(Current.v.c) \cap ProviderKeys # {}

====
